---- MODULE Spec2Model ----
(***************************************************************************)
(* Model of the mongo_odm query builder (src/mongo_odm/query_builder.hpp): *)
(* field references resolved against a per-type registry, the comparison   *)
(* / negation / list / boolean operator layer that builds expression       *)
(* trees, and the serialisation of a tree into a BSON filter document      *)
(* through a bsoncxx::builder::core.                                       *)
(*                                                                         *)
(* One behaviour is the evaluation of query expressions written against    *)
(* one record type: operands are the temporaries of a C++ full expression  *)
(* (an operand stack), the finished expression is converted to a document  *)
(* and handed to the executor.  The field references live for the whole    *)
(* full expression, as they do in the repository's tests.                  *)
(***************************************************************************)
EXTENDS Integers, Sequences, FiniteSets, TLC

VARIABLES registry, nvp, stack, last, bson, doc, conversions

vars == <<registry, nvp, stack, last, bson, doc, conversions>>

(***************************************************************************)
(* Bounds: the size (number of nodes) of the finished expression tree.     *)
(* The wide scope draws comparisons from every operator and value on       *)
(* shallow trees; the deep scope draws them from a small alphabet on       *)
(* nested trees.                                                           *)
(***************************************************************************)
MaxNodes == 3

MaxDeepNodes == 6

(* Conversions of one finished expression to a filter document.            *)
MaxConversions == 2

(***************************************************************************)
(* Values.  A value carries its C++ type; a double is whole + frac/10.     *)
(***************************************************************************)
BoolVal(b) == [t |-> "bool", b |-> b]

IntVal(i) == [t |-> "int", i |-> i]

DoubleVal(w, f) == [t |-> "double", whole |-> w, frac |-> f]

CStrVal(s) == [t |-> "cstr", s |-> s]

StringVal(s) == [t |-> "string", s |-> s]

Values ==
  {BoolVal(TRUE), IntVal(5), DoubleVal(2, 5), CStrVal("hello"), StringVal("hello")}

DeepValues == {IntVal(5), CStrVal("hello")}

Arithmetic == {"bool", "int", "double"}

(* Implicit conversion U -> T, as the by-value constructor parameter       *)
(* `T field` of ComparisonExpr performs it.                                *)
IsConvertible(U, T) ==
  \/ U = T
  \/ U \in Arithmetic /\ T \in Arithmetic
  \/ U = "cstr" /\ T = "string"

Convert(v, T) ==
  CASE v.t = T -> v
    [] T = "int" /\ v.t = "bool" -> IntVal(IF v.b THEN 1 ELSE 0)
    [] T = "int" /\ v.t = "double" -> IntVal(v.whole)
    [] T = "bool" /\ v.t = "int" -> BoolVal(v.i # 0)
    [] T = "bool" /\ v.t = "double" -> BoolVal(v.whole # 0 \/ v.frac # 0)
    [] T = "double" /\ v.t = "int" -> DoubleVal(v.i, 0)
    [] T = "double" /\ v.t = "bool" -> DoubleVal(IF v.b THEN 1 ELSE 0, 0)
    [] T = "string" /\ v.t = "cstr" -> StringVal(v.s)

(***************************************************************************)
(* Field registry: the ordered descriptors of one record type.             *)
(***************************************************************************)
Accessor(m, T) == [member |-> m, type |-> T]

Descriptor(n, a) == [name |-> n, accessor |-> a]

PointRegistry ==
  << Descriptor("x", Accessor("x", "int")), Descriptor("y", Accessor("y", "int")) >>

BarRegistry ==
  << Descriptor("x1", Accessor("x1", "int")),
     Descriptor("y", Accessor("y", "bool")),
     Descriptor("z", Accessor("z", "string")) >>

SingleRegistry == << Descriptor("x", Accessor("x", "int")) >>

(* A malformed registry: an accessor listed twice, and a name used twice.  *)
DupRegistry ==
  << Descriptor("x", Accessor("x", "int")),
     Descriptor("alias", Accessor("x", "int")),
     Descriptor("x", Accessor("y", "bool")) >>

Registries == {PointRegistry, BarRegistry, SingleRegistry, DupRegistry}

Accessors ==
  { Accessor("x", "int"), Accessor("y", "int"), Accessor("y", "bool"),
    Accessor("x1", "int"), Accessor("z", "string"), Accessor("unlisted", "int") }

DeepAccessors ==
  { Accessor("x", "int"), Accessor("y", "int"), Accessor("unlisted", "int") }

NoNvp == [kind |-> "none"]

NotFound == [kind |-> "notfound"]

Nvp(a, n) == [kind |-> "nvp", accessor |-> a, name |-> n]

(* Variants of the scan: one that prefers the last matching descriptor,    *)
(* one that answers a failed scan with a zero-initialised reference.       *)
RECURSIVE wrapimplLast(_, _, _)
wrapimplLast(reg, a, N) ==
  IF N > Len(reg) THEN NotFound
  ELSE LET rest == wrapimplLast(reg, a, N + 1)
       IN IF rest # NotFound THEN rest
          ELSE IF reg[N].accessor.type = a.type /\ reg[N].accessor.member = a.member
               THEN Nvp(a, reg[N].name)
               ELSE NotFound

RECURSIVE wrapimplEmpty(_, _, _)
wrapimplEmpty(reg, a, N) ==
  IF N > Len(reg) THEN Nvp(a, "")
  ELSE IF reg[N].accessor.type = a.type /\ reg[N].accessor.member = a.member
       THEN Nvp(a, reg[N].name)
       ELSE wrapimplEmpty(reg, a, N + 1)

(* Linear scan over descriptor_at(N..M): the first descriptor whose        *)
(* declared type is T and whose accessor equals the given one.             *)
RECURSIVE wrapimpl(_, _, _)
wrapimpl(reg, a, N) ==
  IF N > Len(reg) THEN NotFound
  ELSE IF reg[N].accessor.type = a.type /\ reg[N].accessor.member = a.member
       THEN Nvp(a, reg[N].name)
       ELSE wrapimpl(reg, a, N + 1)

wrap(reg, a) == wrapimpl(reg, a, 1)


(***************************************************************************)
(* bsoncxx::builder::core.  frames[1] is the root container, the last      *)
(* frame the innermost open one; a frame remembers the key under which it  *)
(* is attached to its parent when closed.  An illegal call throws: err     *)
(* names the exception and the calls after it are not executed.            *)
(***************************************************************************)
NoBuilder == [kind |-> "none"]

NoDoc == [t |-> "none"]

Frame(is_array, key) == [is_array |-> is_array, key |-> key, elems |-> << >>]

Core(is_array) ==
  [kind |-> "core", frames |-> << Frame(is_array, "") >>,
   has_key |-> FALSE, key |-> "", err |-> ""]

Top(b) == b.frames[Len(b.frames)]

Depth(b) == Len(b.frames)

Throw(b, e) == [b EXCEPT !.err = e]

Element(k, v) == [key |-> k, val |-> v]

(* Adds one element to the innermost container, under the pending key in   *)
(* a document and under the next index in an array.                        *)
Emplace(b, v) ==
  LET n == Len(b.frames)
      k == IF b.frames[n].is_array THEN ToString(Len(b.frames[n].elems)) ELSE b.key
  IN [b EXCEPT !.frames[n].elems = Append(@, Element(k, v)),
               !.has_key = FALSE, !.key = ""]

NeedsKey(b) == ~Top(b).is_array /\ ~b.has_key

key_view(b, k) ==
  IF b.err # "" THEN b
  ELSE IF Top(b).is_array THEN Throw(b, "k_cannot_append_key_in_sub_array")
  ELSE IF b.has_key THEN Throw(b, "k_unmatched_key_in_builder")
  ELSE [b EXCEPT !.has_key = TRUE, !.key = k]

append(b, v) ==
  IF b.err # "" THEN b
  ELSE IF NeedsKey(b) THEN Throw(b, "k_need_key")
  ELSE Emplace(b, v)

OpenContainer(b, is_array) ==
  IF b.err # "" THEN b
  ELSE IF NeedsKey(b) THEN Throw(b, "k_need_key")
  ELSE LET k == IF Top(b).is_array THEN ToString(Len(Top(b).elems)) ELSE b.key
       IN [b EXCEPT !.frames = Append(@, Frame(is_array, k)),
                    !.has_key = FALSE, !.key = ""]

open_document(b) == OpenContainer(b, FALSE)

open_array(b) == OpenContainer(b, TRUE)

(* Variant: a closed container replaces an earlier element of the parent    *)
(* document that has the same key.                                         *)
CloseContainerLastWins(b, v) ==
  LET n == Len(b.frames)
      k == b.frames[n].key
      Other(el) == el.key # k
  IN [b EXCEPT !.frames = [i \in 1..(n - 1) |->
                             IF i = n - 1
                             THEN [b.frames[i] EXCEPT !.elems =
                                     Append(IF b.frames[i].is_array THEN @
                                            ELSE SelectSeq(@, Other),
                                            Element(k, v))]
                             ELSE b.frames[i]]]

CloseContainer(b, v) ==
  LET n == Len(b.frames)
      k == b.frames[n].key
  IN [b EXCEPT !.frames = [i \in 1..(n - 1) |->
                             IF i = n - 1
                             THEN [b.frames[i] EXCEPT !.elems = Append(@, Element(k, v))]
                             ELSE b.frames[i]]]

close_document(b) ==
  IF b.err # "" THEN b
  ELSE IF Top(b).is_array THEN Throw(b, "k_cannot_close_document_in_sub_array")
  ELSE IF Depth(b) = 1 THEN Throw(b, "k_no_document_to_close")
  ELSE CloseContainer(b, [t |-> "document", elems |-> Top(b).elems])

close_array(b) ==
  IF b.err # "" THEN b
  ELSE IF ~Top(b).is_array THEN Throw(b, "k_cannot_close_array_in_sub_document")
  ELSE IF Depth(b) = 1 THEN Throw(b, "k_no_array_to_close")
  ELSE CloseContainer(b, [t |-> "array", elems |-> Top(b).elems])

(* The finished root document; NoDoc when the conversion threw.            *)
extract_document(b) ==
  IF b.err # "" \/ Depth(b) # 1 \/ Top(b).is_array \/ b.has_key THEN NoDoc
  ELSE [t |-> "document", elems |-> Top(b).elems]

(***************************************************************************)
(* Expression nodes.  A ComparisonExpr<Base, T> keeps the field reference, *)
(* the value converted to T by its constructor, and the selector.          *)
(***************************************************************************)
ComparisonExpr(n, rhs, selector_type) ==
  [kind |-> "cmp", nvp |-> n, field |-> Convert(rhs, n.accessor.type),
   selector_type |-> selector_type]

NotExpr(expr) == [kind |-> "not", expr |-> expr]

ExpressionList(head, tail) == [kind |-> "list", head |-> head, tail |-> tail]

BooleanExpr(lhs, rhs, op) == [kind |-> "bool", lhs |-> lhs, rhs |-> rhs, op |-> op]

is_expression(e) == e.kind \in {"cmp", "not", "list", "bool"}

RECURSIVE NodeCount(_)
NodeCount(e) ==
  CASE e.kind = "cmp" -> 1
    [] e.kind = "not" -> 1 + NodeCount(e.expr)
    [] e.kind = "list" -> 1 + NodeCount(e.head) + NodeCount(e.tail)
    [] e.kind = "bool" -> 1 + NodeCount(e.lhs) + NodeCount(e.rhs)

RECURSIVE SubExprs(_)
SubExprs(e) ==
  {e} \cup
  CASE e.kind = "cmp" -> {}
    [] e.kind = "not" -> SubExprs(e.expr)
    [] e.kind = "list" -> SubExprs(e.head) \cup SubExprs(e.tail)
    [] e.kind = "bool" -> SubExprs(e.lhs) \cup SubExprs(e.rhs)

(***************************************************************************)
(* append_to_bson of the four node kinds, call by call.                    *)
(***************************************************************************)
RECURSIVE append_to_bson(_, _)

(* Variant: the nested document of a comparison is never closed.           *)
ComparisonAppendUnclosed(e, b) ==
  LET b1 == key_view(b, e.nvp.name)
      b2 == open_document(b1)
      b3 == key_view(b2, e.selector_type)
  IN append(b3, e.field)

ComparisonAppend(e, b) ==
  LET b1 == key_view(b, e.nvp.name)
      b2 == open_document(b1)
      b3 == key_view(b2, e.selector_type)
      b4 == append(b3, e.field)
  IN close_document(b4)

(* Variant: "$not" as the outer key and the field name inside it.          *)
NotAppendSwapped(e, b) ==
  LET b1 == key_view(b, "$not")
      b2 == open_document(b1)
      b3 == key_view(b2, e.expr.nvp.name)
      b4 == open_document(b3)
      b5 == key_view(b4, e.expr.selector_type)
      b6 == append(b5, e.expr.field)
      b7 == close_document(b6)
  IN close_document(b7)

NotAppend(e, b) ==
  LET b1 == key_view(b, e.expr.nvp.name)
      b2 == open_document(b1)
      b3 == key_view(b2, "$not")
      b4 == open_document(b3)
      b5 == key_view(b4, e.expr.selector_type)
      b6 == append(b5, e.expr.field)
      b7 == close_document(b6)
  IN close_document(b7)

(* Variant: the tail of the list is appended before its head.              *)
ListAppendTailFirst(e, b) ==
  LET b1 == append_to_bson(e.tail, b)
  IN append_to_bson(e.head, b1)

(* Variant: only the head of the list is appended.                         *)
ListAppendHeadOnly(e, b) == append_to_bson(e.head, b)

ListAppend(e, b) ==
  LET b1 == append_to_bson(e.head, b)
  IN append_to_bson(e.tail, b1)

(* Variant: both sides are appended into one shared array element.         *)
BooleanAppendShared(e, b) ==
  LET b1 == key_view(b, e.op)
      b2 == open_array(b1)
      b3 == open_document(b2)
      b4 == append_to_bson(e.lhs, b3)
      b7 == append_to_bson(e.rhs, b4)
      b8 == close_document(b7)
  IN close_array(b8)

BooleanAppend(e, b) ==
  LET b1 == key_view(b, e.op)
      b2 == open_array(b1)
      b3 == open_document(b2)
      b4 == append_to_bson(e.lhs, b3)
      b5 == close_document(b4)
      b6 == open_document(b5)
      b7 == append_to_bson(e.rhs, b6)
      b8 == close_document(b7)
  IN close_array(b8)

append_to_bson(e, b) ==
  CASE e.kind = "cmp" -> ComparisonAppend(e, b)
    [] e.kind = "not" -> NotAppend(e, b)
    [] e.kind = "list" -> ListAppend(e, b)
    [] e.kind = "bool" -> BooleanAppend(e, b)

(* Variant: the builder of the previous conversion is kept and reused.     *)
BuiltReused(e) ==
  append_to_bson(e, IF bson = NoBuilder THEN Core(FALSE) ELSE bson)

(* operator bsoncxx::document::view_or_value: a fresh core(false), one     *)
(* append_to_bson, extract_document.                                       *)
Built(e) == append_to_bson(e, Core(FALSE))

view_or_value(e) == extract_document(Built(e))

(***************************************************************************)
(* Operator layer.                                                         *)
(***************************************************************************)
CompareOps == {"==", ">", ">=", "<", "<=", "!="}

DeepCompareOps == {"==", ">"}

(* Variant: the selectors of > and >= exchanged.                           *)
SelectorOfSwapped(op) ==
  CASE op = "==" -> "$eq"
    [] op = ">" -> "$gte"
    [] op = ">=" -> "$gt"
    [] op = "<" -> "$lt"
    [] op = "<=" -> "$lte"
    [] op = "!=" -> "$ne"

SelectorOf(op) ==
  CASE op = "==" -> "$eq"
    [] op = ">" -> "$gt"
    [] op = ">=" -> "$gte"
    [] op = "<" -> "$lt"
    [] op = "<=" -> "$lte"
    [] op = "!=" -> "$ne"

(* Variants of the overloads: a non-bool overload that takes const T &,    *)
(* and a bool overload that takes its right-hand side as a plain bool.     *)
NonBoolOverloadExact(T, U) == T # "bool" /\ U = T

BoolOverloadCoercing(T, U) == T = "bool" /\ IsConvertible(U, "bool")

(* template <Base, T, U, enable_if<!is_same<T, bool>>> op(const Nvp<Base,  *)
(* T> &, const U &): U is deduced freely, the body converts rhs to T.      *)
NonBoolOverload(T, U) == T # "bool" /\ IsConvertible(U, T)

(* template <Base, T, enable_if<is_same<T, bool>>> op(const Nvp<Base, T>   *)
(* &, const T &): T is deduced from both arguments and must agree.         *)
BoolOverload(T, U) == T = "bool" /\ U = T

CompareCompiles(T, U) == NonBoolOverload(T, U) \/ BoolOverload(T, U)

(* Variant: operator! on any expression.                                   *)
NotApplicableAny(e) == is_expression(e)

(* operator! takes a const ComparisonExpr<Base, T> & only.                 *)
NotApplicable(e) == e.kind = "cmp"

RECURSIVE StackNodes(_)
StackNodes(s) == IF s = << >> THEN 0 ELSE NodeCount(Head(s)) + StackNodes(Tail(s))

(* Nodes of the finished tree if the operands now on the stack, and extra  *)
(* more nodes, are combined into one expression.                           *)
Budget(s, operands, extra) == StackNodes(s) + extra + (operands - 1)

Idle == doc = NoDoc

Pop2(s) == SubSeq(s, 1, Len(s) - 2)

Left(s) == s[Len(s) - 1]

Right(s) == s[Len(s)]

NoOp == [op |-> "none"]

(***************************************************************************)
(* Actions.                                                                *)
(***************************************************************************)
(* wrap(&Base::member): resolves the accessor; a failed resolution rejects *)
(* the expression under construction.                                      *)
Wrap(accessors, maxNodes) ==
  /\ Idle
  /\ nvp \in {NoNvp, NotFound}
  /\ Budget(stack, Len(stack) + 1, 1) <= maxNodes
  /\ \E a \in accessors :
       LET r == wrap(registry, a)
       IN /\ nvp' = r
          /\ stack' = IF r = NotFound THEN << >> ELSE stack
          /\ last' = [op |-> "wrap", accessor |-> a]
  /\ UNCHANGED <<registry, bson, doc, conversions>>

(* nvp <op> rhs: builds the comparison, or fails to compile.               *)
Compare(ops, values) ==
  /\ Idle
  /\ nvp \notin {NoNvp, NotFound}
  /\ \E op \in ops, rhs \in values :
       LET T == nvp.accessor.type
           ok == CompareCompiles(T, rhs.t)
       IN /\ stack' = IF ok
                      THEN Append(stack, ComparisonExpr(nvp, rhs, SelectorOf(op)))
                      ELSE << >>
          /\ last' = [op |-> "compare", cmp |-> op, nvp |-> nvp, rhs |-> rhs,
                      accepted |-> ok]
  /\ nvp' = NoNvp
  /\ UNCHANGED <<registry, bson, doc, conversions>>

(* !expr *)
Negate(maxNodes) ==
  /\ Idle
  /\ nvp = NoNvp
  /\ stack # << >>
  /\ NotApplicable(Right(stack))
  /\ Budget(stack, Len(stack), 1) <= maxNodes
  /\ stack' = [stack EXCEPT ![Len(stack)] = NotExpr(@)]
  /\ last' = [op |-> "negate", expr |-> Right(stack)]
  /\ UNCHANGED <<registry, nvp, bson, doc, conversions>>

(* (left, right): operator,(Tail &&tail, Head &&head) on two temporaries.  *)
Comma ==
  /\ Idle
  /\ nvp = NoNvp
  /\ Len(stack) >= 2
  /\ is_expression(Left(stack)) /\ is_expression(Right(stack))
  /\ stack' = Append(Pop2(stack), ExpressionList(Right(stack), Left(stack)))
  /\ last' = [op |-> "comma", left |-> Left(stack), right |-> Right(stack)]
  /\ UNCHANGED <<registry, nvp, bson, doc, conversions>>

(* left && right *)
And ==
  /\ Idle
  /\ nvp = NoNvp
  /\ Len(stack) >= 2
  /\ is_expression(Left(stack)) /\ is_expression(Right(stack))
  /\ stack' = Append(Pop2(stack), BooleanExpr(Left(stack), Right(stack), "$and"))
  /\ last' = [op |-> "and", left |-> Left(stack), right |-> Right(stack)]
  /\ UNCHANGED <<registry, nvp, bson, doc, conversions>>

(* left || right *)
Or ==
  /\ Idle
  /\ nvp = NoNvp
  /\ Len(stack) >= 2
  /\ is_expression(Left(stack)) /\ is_expression(Right(stack))
  /\ stack' = Append(Pop2(stack), BooleanExpr(Left(stack), Right(stack), "$or"))
  /\ last' = [op |-> "or", left |-> Left(stack), right |-> Right(stack)]
  /\ UNCHANGED <<registry, nvp, bson, doc, conversions>>

(* The finished expression is converted to a filter document; the callee   *)
(* that receives it by const reference may convert it more than once.      *)
Serialize ==
  /\ nvp = NoNvp
  /\ Len(stack) = 1
  /\ conversions < MaxConversions
  /\ bson' = Built(stack[1])
  /\ doc' = view_or_value(stack[1])
  /\ conversions' = conversions + 1
  /\ UNCHANGED <<registry, nvp, stack, last>>

(* The executor takes the filter; the temporaries of the full expression   *)
(* are destroyed.                                                          *)
FindOne ==
  /\ doc # NoDoc
  /\ doc' = NoDoc
  /\ bson' = NoBuilder
  /\ stack' = << >>
  /\ last' = [op |-> "find_one"]
  /\ conversions' = 0
  /\ UNCHANGED <<registry, nvp>>

Init ==
  /\ registry \in Registries
  /\ nvp = NoNvp
  /\ stack = << >>
  /\ last = NoOp
  /\ bson = NoBuilder
  /\ doc = NoDoc
  /\ conversions = 0

InitDeep ==
  /\ registry = PointRegistry
  /\ nvp = NoNvp
  /\ stack = << >>
  /\ last = NoOp
  /\ bson = NoBuilder
  /\ doc = NoDoc
  /\ conversions = 0

Next ==
  \/ Wrap(Accessors, MaxNodes)
  \/ Compare(CompareOps, Values)
  \/ Negate(MaxNodes)
  \/ Comma
  \/ And
  \/ Or
  \/ Serialize
  \/ FindOne

NextDeep ==
  \/ Wrap(DeepAccessors, MaxDeepNodes)
  \/ Compare(DeepCompareOps, DeepValues)
  \/ Negate(MaxDeepNodes)
  \/ Comma
  \/ And
  \/ Or
  \/ Serialize
  \/ FindOne

Spec == Init /\ [][Next]_vars

SpecDeep == InitDeep /\ [][NextDeep]_vars

TypeOK ==
  /\ registry \in Registries
  /\ \A i \in 1..Len(stack) : is_expression(stack[i])

(***************************************************************************)
(* Properties.                                                             *)
(***************************************************************************)
Document(elems) == [t |-> "document", elems |-> elems]

Array(elems) == [t |-> "array", elems |-> elems]

(* A conversion to a filter document has run on the finished expression.   *)
Serialized == bson # NoBuilder /\ Len(stack) = 1

(* The operator keywords of the filter language, per comparison operator.  *)
KeywordTable ==
  { <<"==", "$eq">>, <<">", "$gt">>, <<">=", "$gte">>,
    <<"<", "$lt">>, <<"<=", "$lte">>, <<"!=", "$ne">> }

Registered(n, name) ==
  \E i \in 1..Len(registry) :
    registry[i].accessor = n.accessor /\ registry[i].name = name

(* C1: serialising the comparison built from a registered field f, a value *)
(* v of f's declared type and an operator op yields the document with the  *)
(* single key f's registered name, mapped to a document with the single    *)
(* key the keyword of op in the fixed table, mapped to v.                  *)
C1_ComparisonDocument ==
  (Serialized /\ last.op = "compare" /\ last.accepted
     /\ last.rhs.t = last.nvp.accessor.type)
  => \E k \in {"$eq", "$gt", "$gte", "$lt", "$lte", "$ne"} :
       /\ <<last.cmp, k>> \in KeywordTable
       /\ Registered(last.nvp, last.nvp.name)
       /\ doc = Document(<< Element(last.nvp.name,
                                    Document(<< Element(k, last.rhs) >>)) >>)

C1_Witness ==
  /\ Serialized /\ last.op = "compare" /\ last.accepted
  /\ last.cmp = ">=" /\ last.rhs = StringVal("hello")
  /\ doc # NoDoc

(* C2: serialising the negation of a comparison (n, k, v) yields the       *)
(* document with the single key n mapped to {"$not": {k: v}}.              *)
C2_NegationDocument ==
  (Serialized /\ last.op = "negate")
  => LET c == last.expr
     IN /\ c.kind = "cmp"
        /\ stack[1] = [kind |-> "not", expr |-> c]
        /\ doc = Document(<< Element(c.nvp.name,
                     Document(<< Element("$not",
                         Document(<< Element(c.selector_type, c.field) >>)) >>)) >>)

C2_Witness ==
  /\ Serialized /\ last.op = "negate"
  /\ stack[1].kind = "not" /\ stack[1].expr.selector_type = "$lt"
  /\ doc # NoDoc

(* C3: serialising left && right (left || right) yields the document with  *)
(* the single key "$and" ("$or") mapped to an array of exactly two         *)
(* documents, the first equal to the serialisation of left alone and the   *)
(* second to the serialisation of right alone, whatever kinds of node left *)
(* and right are.                                                          *)
C3_BooleanDocument ==
  (Serialized /\ stack[1].kind = "bool")
  => LET e == stack[1]
         l == view_or_value(e.lhs)
         r == view_or_value(e.rhs)
     IN /\ l # NoDoc /\ r # NoDoc
        /\ e.op \in {"$and", "$or"}
        /\ last.op = "and" => e = [kind |-> "bool", lhs |-> last.left,
                                   rhs |-> last.right, op |-> "$and"]
        /\ last.op = "or" => e = [kind |-> "bool", lhs |-> last.left,
                                  rhs |-> last.right, op |-> "$or"]
        /\ doc = Document(<< Element(e.op,
                     Array(<< Element("0", l), Element("1", r) >>)) >>)

C3_Witness ==
  /\ Serialized /\ last.op = "or"
  /\ stack[1].kind = "bool" /\ stack[1].op = "$or"
  /\ stack[1].lhs.kind = "list" /\ stack[1].rhs.kind = "not"
  /\ doc # NoDoc

Range(f) == {f[i] : i \in DOMAIN f}

ComparisonPair ==
  /\ last.op = "comma"
  /\ last.left.kind = "cmp" /\ last.right.kind = "cmp"
  /\ last.left.nvp.name # last.right.nvp.name

(* C4 as stated: for two comparisons c1, c2 on distinct field names the    *)
(* list (c1, c2) and the combination c1 && c2 serialise to identical       *)
(* documents.                                                              *)
C4_ListEqualsAnd ==
  (Serialized /\ ComparisonPair)
  => doc = view_or_value(BooleanExpr(last.left, last.right, "$and"))

(* C4 amended: the list (c1, c2) serialises to one document whose          *)
(* top-level key/value pairs are exactly the pairs that c1 && c2 holds in  *)
(* the two element documents of its "$and" array; the list document has no *)
(* wrapping key, so the two documents differ.                              *)
C4_ListHoldsPairsOfAnd ==
  (Serialized /\ ComparisonPair)
  => LET a == view_or_value(BooleanExpr(last.left, last.right, "$and"))
         arr == a.elems[1].val.elems
         inner == UNION {Range(arr[i].val.elems) : i \in 1..Len(arr)}
     IN /\ doc.t = "document" /\ a.t = "document"
        /\ Len(doc.elems) = 2
        /\ Cardinality(inner) = 2
        /\ Range(doc.elems) = inner
        /\ \A i \in 1..2 : doc.elems[i].key # "$and"
        /\ doc # a

C4_Witness ==
  /\ Serialized /\ ComparisonPair
  /\ stack[1].kind = "list"
  /\ last.left.selector_type = "$eq" /\ last.right.selector_type = "$gt"
  /\ doc # NoDoc

(* C5 as stated: a comparison whose value has a type U other than the      *)
(* field's declared type T is rejected.                                    *)
C5_MismatchRejected ==
  (last.op = "compare" /\ last.rhs.t # last.nvp.accessor.type)
  => ~last.accepted

(* The implicit conversions between the modelled value and field types.    *)
ImplicitConversions ==
  { <<"bool", "int">>, <<"double", "int">>, <<"cstr", "string">> }

(* C5 amended: a comparison is rejected whenever U is neither T nor        *)
(* implicitly convertible to T (on a boolean field: whenever U is not      *)
(* bool); a value of another type that converts implicitly to a            *)
(* non-boolean T is accepted and converted to T, so that every comparison  *)
(* node built stores a value of the field's declared type.                 *)
C5_ConvertibleAccepted ==
  last.op = "compare"
  => LET U == last.rhs.t
         T == last.nvp.accessor.type
     IN /\ last.accepted <=> (U = T \/ <<U, T>> \in ImplicitConversions)
        /\ last.accepted =>
             /\ stack # << >>
             /\ Right(stack).kind = "cmp"
             /\ Right(stack).field.t = T
             /\ U = T => Right(stack).field = last.rhs
        /\ ~last.accepted => stack = << >>

C5_Witness ==
  /\ last.op = "compare" /\ last.accepted
  /\ last.rhs = DoubleVal(2, 5)
  /\ Right(stack).field = IntVal(2)

RECURSIVE AllNodes(_)
AllNodes(s) == IF s = << >> THEN {} ELSE SubExprs(Head(s)) \cup AllNodes(Tail(s))

(* C6: on a field whose declared type is bool each comparison operator     *)
(* accepts a value only if its type is exactly bool; no comparison node on *)
(* a bool field holds a value that came from another type.                 *)
C6_BoolFieldExact ==
  /\ (last.op = "compare" /\ last.nvp.accessor.type = "bool")
       => (last.accepted <=> last.rhs.t = "bool")
  /\ \A e \in AllNodes(stack) :
       (e.kind = "cmp" /\ e.nvp.accessor.type = "bool") => e.field.t = "bool"

C6_Witness ==
  /\ last.op = "compare" /\ last.nvp.accessor.type = "bool"
  /\ last.cmp = "!=" /\ last.rhs = IntVal(5)
  /\ ~last.accepted /\ stack = << >>

DistinctAccessors ==
  \A i, j \in 1..Len(registry) :
    registry[i].accessor = registry[j].accessor => i = j

(* C7: resolving the accessor registered at any position of the registry   *)
(* returns a reference whose name is that of the first descriptor, in      *)
(* declaration order, with that accessor and type; with distinct accessors *)
(* it is the name registered at that position.                             *)
C7_ResolveRegistered ==
  (last.op = "wrap" /\ \E i \in 1..Len(registry) : registry[i].accessor = last.accessor)
  => /\ nvp.kind = "nvp"
     /\ nvp.accessor = last.accessor
     /\ \A i \in 1..Len(registry) :
          /\ (registry[i].accessor = last.accessor
                /\ \A j \in 1..(i - 1) : registry[j].accessor # last.accessor)
               => nvp.name = registry[i].name
          /\ (DistinctAccessors /\ registry[i].accessor = last.accessor)
               => nvp.name = registry[i].name

C7_Witness ==
  /\ last.op = "wrap"
  /\ registry = DupRegistry /\ registry[2].accessor = last.accessor
  /\ nvp.kind = "nvp" /\ nvp.name = "x"

(* C8: resolving an accessor that no descriptor of the registry matches    *)
(* fails: no reference is returned, in particular none with an empty name, *)
(* and no expression is built on that accessor.                            *)
C8_ResolveUnregistered ==
  /\ (last.op = "wrap" /\ \A i \in 1..Len(registry) : registry[i].accessor # last.accessor)
       => (nvp = NotFound /\ stack = << >>)
  /\ nvp.kind = "nvp" => (nvp.name # "" /\ Registered(nvp, nvp.name))
  /\ \A e \in AllNodes(stack) :
       e.kind = "cmp" =>
         (e.nvp.kind = "nvp" /\ e.nvp.name # "" /\ Registered(e.nvp, e.nvp.name))

C8_Witness ==
  /\ last.op = "wrap" /\ last.accessor = Accessor("unlisted", "int")
  /\ nvp = NotFound /\ stack = << >>

(* C9: in every expression tree built through the operator layer the child *)
(* of every negation node is a comparison node.                            *)
C9_NegationOfComparison ==
  \A e \in AllNodes(stack) : e.kind = "not" => e.expr.kind = "cmp"

C9_Witness ==
  /\ Len(stack) = 1 /\ last.op = "comma"
  /\ stack[1].kind = "list"
  /\ stack[1].head.kind = "not" /\ stack[1].tail.kind = "bool"

(* The builder states in which the code enters an append_to_bson: the      *)
(* fresh root document of a conversion, and the first and the second       *)
(* element document of a boolean expression's array.                       *)
EntryBuilders ==
  LET first == open_document(open_array(key_view(Core(FALSE), "$and")))
  IN { Core(FALSE), first, open_document(close_document(first)) }

(* C10: serialising a finished expression tree never fails: every builder  *)
(* call is legal in the builder's state, and when the append of any node   *)
(* of the tree completes, every document and array it opened is closed:    *)
(* the builder is at the depth it had on entry, no key is pending, and the *)
(* enclosing containers are untouched.                                     *)
C10_SerializationTotal ==
  Serialized
  => /\ bson.err = "" /\ ~bson.has_key /\ Depth(bson) = 1
     /\ doc # NoDoc
     /\ \A e \in SubExprs(stack[1]), b \in EntryBuilders :
          LET r == append_to_bson(e, b)
          IN /\ r.err = "" /\ ~r.has_key
             /\ Depth(r) = Depth(b)
             /\ ~Top(r).is_array
             /\ \A i \in 1..(Depth(b) - 1) : r.frames[i] = b.frames[i]

C10_Witness ==
  /\ Serialized /\ bson.err = "" /\ doc # NoDoc
  /\ stack[1].kind = "bool"
  /\ stack[1].lhs.kind = "bool" /\ stack[1].rhs.kind = "not"

Siblings(first, second) ==
  Document(view_or_value(first).elems \o view_or_value(second).elems)

(* C12 as stated: a list written (e1, ..., en) with the comma combinator   *)
(* is serialised as sibling key/value pairs of one document, with no       *)
(* wrapping key, in the written order: the conditions to the left of the   *)
(* last comma first, then the condition to its right.                      *)
C12_WrittenOrder ==
  (Serialized /\ last.op = "comma")
  => doc = Siblings(last.left, last.right)

(* C12 amended: the list is serialised as sibling key/value pairs of one   *)
(* document, with no wrapping key, in the reverse of the written order:    *)
(* the operand to the right of a comma is the head of the list and is      *)
(* emitted first, the operand to its left is the tail and follows.         *)
C12_ReverseWrittenOrder ==
  (Serialized /\ last.op = "comma")
  => /\ stack[1] = [kind |-> "list", head |-> last.right, tail |-> last.left]
     /\ view_or_value(last.left) # NoDoc /\ view_or_value(last.right) # NoDoc
     /\ doc = Siblings(last.right, last.left)
     /\ Len(doc.elems) >= 2

C12_Witness ==
  /\ Serialized /\ last.op = "comma" /\ doc # NoDoc
  /\ last.left.kind = "list" /\ last.right.kind = "cmp"
  /\ last.left.head.kind = "cmp" /\ last.left.tail.kind = "cmp"
  /\ Cardinality({last.right, last.left.head, last.left.tail}) = 3
  /\ doc.elems = << view_or_value(last.right).elems[1],
                    view_or_value(last.left.head).elems[1],
                    view_or_value(last.left.tail).elems[1] >>

SameFieldPair ==
  /\ last.op = "comma"
  /\ last.left.kind = "cmp" /\ last.right.kind = "cmp"
  /\ last.left.nvp.name = last.right.nvp.name

ComparisonElement(c) ==
  Element(c.nvp.name, Document(<< Element(c.selector_type, c.field) >>))

(* C13: the list of two comparisons on the same field name serialises to   *)
(* one document in which that name is a key twice, once per comparison,    *)
(* each occurrence mapped to its own {operator: value} document: the two   *)
(* predicates are neither merged into one nested document nor dropped.     *)
C13_DuplicateKeysKept ==
  (Serialized /\ SameFieldPair)
  => /\ doc.t = "document"
     /\ Len(doc.elems) = 2
     /\ \A i \in 1..2 :
          /\ doc.elems[i].key = last.left.nvp.name
          /\ doc.elems[i].val.t = "document"
          /\ Len(doc.elems[i].val.elems) = 1
     /\ \E i, j \in 1..2 :
          /\ i # j
          /\ doc.elems[i] = ComparisonElement(last.left)
          /\ doc.elems[j] = ComparisonElement(last.right)

C13_Witness ==
  /\ Serialized /\ SameFieldPair /\ doc # NoDoc
  /\ last.left.nvp.accessor # last.right.nvp.accessor
  /\ last.left.selector_type = "$gte" /\ last.right.selector_type = "$ne"
  /\ doc.elems[1].key = doc.elems[2].key
  /\ doc.elems[1] # doc.elems[2]
====
